---- MODULE Spec2Model ----
(***************************************************************************)
(* GoChannel: the in-process Pub/Sub of watermill (package gochannel).     *)
(*                                                                         *)
(* Every call of Publish, every goroutine started by Subscribe and every   *)
(* call of Close is a process.  A step is one blocking point of the code   *)
(* (a lock acquisition, a select) together with the non-blocking code that *)
(* follows it up to the next blocking point, or up to the release of a     *)
(* lock that is followed by more code of the call.                         *)
(***************************************************************************)
EXTENDS Integers, Sequences, FiniteSets, TLC

\* ------------------------------------------------------------------ bounds
MaxMsgs == 2
MaxNacks == 2
MaxBuffer == 1

\* --------------------------------------------------------------- constants
noTimeout == -1

Topics == {"A", "B"}
Pubs == {"p1", "p2"}
Subs == {"s1", "s2"}
Closers == {"c1", "c2"}
SendTimeouts == {noTimeout, 10}

\* The calls are numbered in the order they are made: Prev[x] are the calls made
\* before call x.
Prev == [p1 |-> {}, p2 |-> {"p1"}, s1 |-> {}, s2 |-> {"s1"}, c1 |-> {}, c2 |-> {"c1"}]

VARIABLES
    sendTimeout,          \* GoChannel.sendTimeout
    outputChannelBuffer,  \* GoChannel.outputChannelBuffer
    persistent,           \* GoChannel.persistent
    subscribers,          \* GoChannel.subscribers: topic -> list of subscribers
    subscribersLock,      \* GoChannel.subscribersLock (sync.RWMutex)
    messages,             \* GoChannel.messages: topic -> retained messages
    messagesMutex,        \* GoChannel.messagesMutex (sync.RWMutex)
    closed,               \* GoChannel.closed
    closing,              \* GoChannel.closing is closed
    queue,                \* subscriber.outputChannel: buffered copies
    qclosed,              \* subscriber.outputChannel is closed
    held,                 \* the copy a consumer has read and not yet acked/nacked
    acked,                \* copies whose Acked() channel is closed
    nacked,               \* copies whose Nacked() channel is closed
    pub,                  \* one Publish call per publisher
    gor,                  \* one Subscribe call (and its goroutine) per subscriber
    clo,                  \* one Close call per closer
    panicked,             \* the runtime panic the process dies of, if any
    exited,               \* the runtime has ended the process after a panic
    pushed,               \* history: copies pushed on each outputChannel
    timedOut,             \* history: the sends whose timeout fired
    hist                  \* history: what was true when each Publish was called, and
                          \* the messages for which it found no subscriber

vars == <<sendTimeout, outputChannelBuffer, persistent, subscribers, subscribersLock,
          messages, messagesMutex, closed, closing, queue, qclosed, held, acked,
          nacked, pub, gor, clo, panicked, exited, pushed, timedOut, hist>>

config == <<sendTimeout, outputChannelBuffer, persistent>>

calls == <<hist, timedOut>>

\* ---------------------------------------------------------------- helpers
\* sync.RWMutex: w is the goroutine that owns the writer mutex (it has announced
\* itself to the readers and holds the lock once the readers have left).
FreeLock == [w |-> "", r |-> {}]

\* RLock returns: no writer holds the lock or waits for it.
CanRLock(l) == l.w = ""

\* Lock gets the writer mutex.
CanLock(l) == l.w = ""

\* Lock returns: the readers have left.
Drained(l) == l.r = {}

Msg(p, i) == <<p, i>>

MsgsOf(p, n) == [i \in 1..n |-> Msg(p, i)]

\* message.Copy(): a new message instance of the same payload with its own ack state
\* (from: the sending call, to: the subscriber, n: the attempt).
Copy(m, from, to, n) == [msg |-> m, from |-> from, to |-> to, n |-> n]

\* a send on outputChannel can proceed: a free buffer slot, or (unbuffered) a
\* consumer waiting in its receive.
CanPush(s) ==
    IF outputChannelBuffer = 0
    THEN held[s] = <<>> /\ queue[s] = <<>>
    ELSE Len(queue[s]) < outputChannelBuffer

RECURSIVE SeqToSet(_)
SeqToSet(q) == IF q = <<>> THEN {} ELSE {Head(q)} \cup SeqToSet(Tail(q))

IdlePub == [pc |-> "idle", topic |-> "", n |-> 0, mi |-> 0, snap |-> <<>>,
            sj |-> 0, att |-> 0, err |-> "none"]

IdleGor == [pc |-> "idle", topic |-> "", snap |-> <<>>, ri |-> 0, att |-> 0]

IdleHist == [reg |-> {}, ret |-> {}, done |-> {}, lost |-> {}]

\* -------------------------------------------------------------------- Init
\* NewGoChannel / NewPersistentGoChannel
NewGoChannel(buffer, timeout, persist) ==
    /\ sendTimeout = timeout
    /\ outputChannelBuffer = buffer
    /\ persistent = persist
    /\ subscribers = [t \in Topics |-> <<>>]
    /\ subscribersLock = FreeLock
    /\ messages = [t \in Topics |-> <<>>]
    /\ messagesMutex = FreeLock
    /\ closed = FALSE
    /\ closing = FALSE

InitProcs ==
    /\ queue = [s \in Subs |-> <<>>]
    /\ qclosed = [s \in Subs |-> FALSE]
    /\ held = [s \in Subs |-> <<>>]
    /\ acked = {}
    /\ nacked = {}
    /\ pub = [p \in Pubs |-> IdlePub]
    /\ gor = [s \in Subs |-> IdleGor]
    /\ clo = [c \in Closers |-> "idle"]
    /\ panicked = ""
    /\ exited = FALSE
    /\ pushed = [s \in Subs |-> <<>>]
    /\ timedOut = {}
    /\ hist = [p \in Pubs |-> IdleHist]

\* the engine is constructed with a buffer of B, a send timeout of T and a mode of P
Construct(B, T, P) ==
    /\ \E b \in B, t \in T, per \in P : NewGoChannel(b, t, per)
    /\ InitProcs

Init == Construct(0..MaxBuffer, SendTimeouts, BOOLEAN)


\* the process runs: once the runtime has exited no goroutine takes another step
Alive == ~exited

\* panic(msg) in a goroutine: the goroutine stops where it is and its deferred calls
\* run; the other goroutines go on until the runtime exits. The process dies of the
\* panic of the goroutine that gets to the exit first.
Panics(msg) == panicked' \in (IF panicked = "" THEN {msg} ELSE {panicked, msg})

\* an unrecovered panic ends the process once the deferred calls have run
Exit ==
    /\ Alive
    /\ panicked # ""
    /\ exited' = TRUE
    /\ UNCHANGED <<config, subscribers, subscribersLock, messages, messagesMutex, closed,
                   closing, queue, qclosed, held, acked, nacked, pub, gor, clo, panicked,
                   pushed, calls>>

\* ------------------------------------------------- sendMessageToSubscriber
\* The calls in flight: a Publish call (through sendMessage) or the goroutine of a
\* Subscribe call (the replay).
Senders == Pubs \cup Subs

PC(x) == IF x \in Pubs THEN pub[x].pc ELSE gor[x].pc

Att(x) == IF x \in Pubs THEN pub[x].att ELSE gor[x].att

\* msg: the message the call is sending.
CurMsg(x) == IF x \in Pubs THEN Msg(x, pub[x].mi) ELSE gor[x].snap[gor[x].ri]

\* s: the subscriber it is sent to.
CurSub(x) == IF x \in Pubs THEN pub[x].snap[pub[x].sj] ELSE x

\* mutant: the replay sends with g.sendTimeout too
MutCurTimeout(x) == sendTimeout

\* sendTimeout: g.sendTimeout from sendMessage, noTimeout from the replay.
CurTimeout(x) == IF x \in Pubs THEN sendTimeout ELSE noTimeout

\* mutant: the message itself is sent, not a copy of it
MutMsgToSend(x) == Copy(CurMsg(x), "", "", 0)

\* msgToSend := msg.Copy()
MsgToSend(x) == Copy(CurMsg(x), x, CurSub(x), Att(x))

\* whether the copy was delivered by sendMessage (live) or by the replay
IsLive(x) == x \in Pubs

\* mutant: the ack wait is skipped
MutAckResolved(c) == TRUE

\* case <-msgToSend.Acked()
AckResolved(c) == c \in acked

\* case <-msgToSend.Nacked()
NackResolved(c) == c \in nacked

\* mutant: a nack ends the loop like an ack
MutNackResends == FALSE

\* continue SendToSubscriber: a nack sends a fresh copy
NackResends == TRUE

\* mutant: the error of sendMessageToSubscriber is dropped
MutSendFailed(r) == FALSE

\* if err := g.sendMessageToSubscriber(...); err != nil { return err }
SendFailed(r) == r # "nil"

\* Publish: the for loop over messages goes on with the next message, or returns nil.
PubNextMessage(p) ==
    LET r == pub[p] IN
    IF r.mi < r.n
    THEN [r EXCEPT !.mi = r.mi + 1, !.pc = "rlock", !.snap = <<>>, !.sj = 0, !.att = 0]
    ELSE [r EXCEPT !.pc = "done", !.err = "nil"]

\* sendMessage: the for loop over subscribers goes on with the next subscriber, or
\* returns nil (the deferred RUnlock runs).
PubNextSubscriber(p) ==
    LET r == pub[p] IN
    IF r.sj < Len(r.snap)
    THEN /\ pub' = [pub EXCEPT ![p] = [r EXCEPT !.sj = r.sj + 1, !.att = 1, !.pc = "send"]]
         /\ UNCHANGED subscribersLock
    ELSE /\ pub' = [pub EXCEPT ![p] = PubNextMessage(p)]
         /\ subscribersLock' = [subscribersLock EXCEPT !.r = @ \ {p}]

\* sendMessage and Publish return the error (the deferred RUnlock runs).
PubFail(p, r) ==
    /\ pub' = [pub EXCEPT ![p].pc = "done", ![p].err = r]
    /\ subscribersLock' = [subscribersLock EXCEPT !.r = @ \ {p}]

\* mutant: the read lock on messagesMutex is released when the replay ends, before
\* subscribersLock is asked for
MutReadersAfterReplay(s) == messagesMutex.r \ {s}

\* the read lock on messagesMutex is kept after the replay, until the goroutine
\* holds subscribersLock
ReadersAfterReplay(s) == messagesMutex.r \cup {s}

\* Subscribe's goroutine: the replay loop goes on with the next retained message, or
\* ends and the goroutine asks for subscribersLock.
GorNextMessage(s) ==
    LET r == gor[s] IN
    IF r.ri < Len(r.snap)
    THEN /\ gor' = [gor EXCEPT ![s] = [r EXCEPT !.ri = r.ri + 1, !.att = 1, !.pc = "send"]]
         /\ UNCHANGED messagesMutex
    ELSE /\ gor' = [gor EXCEPT ![s].pc = "sublock"]
         /\ messagesMutex' = [messagesMutex EXCEPT !.r = ReadersAfterReplay(s)]

\* sendMessageToSubscriber returns r to its caller.
Return(x, r) ==
    IF x \in Pubs
    THEN /\ IF SendFailed(r) THEN PubFail(x, r) ELSE PubNextSubscriber(x)
         /\ UNCHANGED <<gor, messagesMutex, panicked>>
    ELSE /\ IF SendFailed(r)
            THEN /\ Panics("replay failed")
                 /\ gor' = [gor EXCEPT ![x].pc = "panic"]
                 /\ UNCHANGED messagesMutex
            ELSE GorNextMessage(x) /\ UNCHANGED panicked
         /\ UNCHANGED <<pub, subscribersLock>>

SetSender(x, pc, att) ==
    IF x \in Pubs
    THEN pub' = [pub EXCEPT ![x].pc = pc, ![x].att = att] /\ UNCHANGED gor
    ELSE gor' = [gor EXCEPT ![x].pc = pc, ![x].att = att] /\ UNCHANGED pub

\* case s.outputChannel <- msgToSend (the channel is open)
Send(x) ==
    LET s == CurSub(x)
        c == MsgToSend(x) IN
    /\ Alive
    /\ PC(x) = "send"
    /\ ~qclosed[s]
    /\ CanPush(s)
    /\ IF outputChannelBuffer = 0
       THEN held' = [held EXCEPT ![s] = <<c>>] /\ UNCHANGED queue
       ELSE queue' = [queue EXCEPT ![s] = Append(@, c)] /\ UNCHANGED held
    /\ pushed' = [pushed EXCEPT ![s] = Append(@, [copy |-> c, live |-> IsLive(x), late |-> closing])]
    /\ SetSender(x, "ack", Att(x))
    /\ UNCHANGED <<config, exited, subscribers, subscribersLock, messages, messagesMutex, closed,
                   closing, qclosed, acked, nacked, clo, panicked, calls>>

\* the deferred calls that run while a panic in sendMessageToSubscriber unwinds: the
\* RUnlock of sendMessage under a Publish call, none under the replay
ReadersAfterPanic(x) == IF x \in Pubs THEN subscribersLock.r \ {x} ELSE subscribersLock.r

\* case s.outputChannel <- msgToSend, the channel being closed: the send panics
SendOnClosed(x) ==
    /\ Alive
    /\ PC(x) = "send"
    /\ qclosed[CurSub(x)]
    /\ Panics("send on closed channel")
    /\ SetSender(x, "panic", Att(x))
    /\ subscribersLock' = [subscribersLock EXCEPT !.r = ReadersAfterPanic(x)]
    /\ UNCHANGED <<config, exited, subscribers, messages, messagesMutex, closed, closing,
                   queue, qclosed, held, acked, nacked, clo, pushed, calls>>

\* case <-timeout
SendTimeout(x) ==
    /\ Alive
    /\ PC(x) = "send"
    /\ CurTimeout(x) # noTimeout
    /\ Return(x, "timeout")
    /\ timedOut' = timedOut \cup {MsgToSend(x)}
    /\ UNCHANGED <<config, exited, subscribers, messages, closed, closing, queue, qclosed, held,
                   acked, nacked, clo, pushed, hist>>

\* case <-g.closing (first select)
SendClosing(x) ==
    /\ Alive
    /\ PC(x) = "send"
    /\ closing
    /\ Return(x, "nil")
    /\ UNCHANGED <<config, exited, subscribers, messages, closed, closing, queue, qclosed, held,
                   acked, nacked, clo, pushed, calls>>

\* case <-msgToSend.Acked(): break SendToSubscriber
AwaitAcked(x) ==
    /\ Alive
    /\ PC(x) = "ack"
    /\ AckResolved(MsgToSend(x))
    /\ Return(x, "nil")
    /\ UNCHANGED <<config, exited, subscribers, messages, closed, closing, queue, qclosed, held,
                   acked, nacked, clo, pushed, calls>>

\* case <-msgToSend.Nacked(): continue SendToSubscriber
AwaitNacked(x) ==
    /\ Alive
    /\ PC(x) = "ack"
    /\ NackResolved(MsgToSend(x))
    /\ IF NackResends
       THEN /\ SetSender(x, "send", Att(x) + 1)
            /\ UNCHANGED <<subscribersLock, messagesMutex, panicked>>
       ELSE Return(x, "nil")
    /\ UNCHANGED <<config, exited, subscribers, messages, closed, closing, queue, qclosed, held,
                   acked, nacked, clo, pushed, calls>>

\* case <-g.closing (second select)
AwaitClosing(x) ==
    /\ Alive
    /\ PC(x) = "ack"
    /\ closing
    /\ Return(x, "nil")
    /\ UNCHANGED <<config, exited, subscribers, messages, closed, closing, queue, qclosed, held,
                   acked, nacked, clo, pushed, calls>>

\* ----------------------------------------------------------------- Publish
\* subscribers whose Subscribe call on topic t has returned
Returned(t) == {s \in Subs : gor[s].pc # "idle" /\ gor[s].topic = t}

\* subscribers appended to g.subscribers[t]
Registered(t) == SeqToSet(subscribers[t])

\* mutant: the messages are retained whatever the mode
MutRetains == TRUE

\* if g.persistent
Retains == persistent

\* Publish(topic, messages...) is called with n messages.
PublishCall(p, t, n) ==
    /\ Alive
    /\ pub[p].pc = "idle"
    /\ \A q \in Prev[p] : pub[q].pc # "idle"
    /\ pub' = [pub EXCEPT ![p] = [IdlePub EXCEPT !.pc = IF Retains THEN "lock" ELSE "rlock",
                                                 !.topic = t, !.n = n, !.mi = 1]]
    /\ hist' = [hist EXCEPT ![p] = [reg |-> Registered(t), ret |-> Returned(t),
                                    done |-> {q \in Pubs : pub[q].pc = "done"},
                                    lost |-> {}]]
    /\ UNCHANGED <<config, exited, subscribers, subscribersLock, messages, messagesMutex, closed,
                   closing, queue, qclosed, held, acked, nacked, gor, clo, panicked, pushed,
                   timedOut>>

\* g.messagesMutex.Lock(): the writer mutex is taken, the readers are told
PublishLock(p) ==
    /\ Alive
    /\ pub[p].pc = "lock"
    /\ CanLock(messagesMutex)
    /\ messagesMutex' = [messagesMutex EXCEPT !.w = p]
    /\ pub' = [pub EXCEPT ![p].pc = "append"]
    /\ UNCHANGED <<config, exited, subscribers, subscribersLock, messages, closed, closing, queue,
                   qclosed, held, acked, nacked, gor, clo, panicked, pushed, calls>>

\* Lock returns; g.messages[topic] = append(g.messages[topic], messages...); Unlock
PublishAppend(p) ==
    /\ Alive
    /\ pub[p].pc = "append"
    /\ Drained(messagesMutex)
    /\ messages' = [messages EXCEPT ![pub[p].topic] = @ \o MsgsOf(p, pub[p].n)]
    /\ messagesMutex' = [messagesMutex EXCEPT !.w = ""]
    /\ pub' = [pub EXCEPT ![p].pc = "rlock"]
    /\ UNCHANGED <<config, exited, subscribers, subscribersLock, closed, closing, queue, qclosed,
                   held, acked, nacked, gor, clo, panicked, pushed, calls>>

\* mutant: the loop over the subscribers starts at the second one
MutSnapshot(t) == IF subscribers[t] = <<>> THEN <<>> ELSE Tail(subscribers[t])

\* mutant: the subscribers are served last registered first
MutSnapshotReversed(t) ==
    [i \in 1..Len(subscribers[t]) |-> subscribers[t][Len(subscribers[t]) + 1 - i]]

\* subscribers, ok := g.subscribers[topic]
Snapshot(t) == subscribers[t]

\* sendMessage: g.subscribersLock.RLock(); the subscribers of the topic are read;
\* with none the call returns nil at once.
SendMessage(p) ==
    /\ Alive
    /\ pub[p].pc = "rlock"
    /\ CanRLock(subscribersLock)
    /\ IF Snapshot(pub[p].topic) = <<>>
       THEN /\ pub' = [pub EXCEPT ![p] = PubNextMessage(p)]
            /\ hist' = [hist EXCEPT ![p].lost = @ \cup {Msg(p, pub[p].mi)}]
            /\ UNCHANGED subscribersLock
       ELSE /\ pub' = [pub EXCEPT ![p].snap = Snapshot(pub[p].topic), ![p].sj = 1,
                                  ![p].att = 1, ![p].pc = "send"]
            /\ subscribersLock' = [subscribersLock EXCEPT !.r = @ \cup {p}]
            /\ UNCHANGED hist
    /\ UNCHANGED <<config, exited, subscribers, messages, messagesMutex, closed, closing, queue,
                   qclosed, held, acked, nacked, gor, clo, panicked, pushed, timedOut>>

\* --------------------------------------------------------------- Subscribe
\* Subscribe(topic): the subscriber and its channel are made, the goroutine is
\* started and the channel is returned.
Subscribe(s, t) ==
    /\ Alive
    /\ gor[s].pc = "idle"
    /\ \A q \in Prev[s] : gor[q].pc # "idle"
    /\ gor' = [gor EXCEPT ![s] = [IdleGor EXCEPT !.pc = "start", !.topic = t]]
    /\ UNCHANGED <<config, exited, subscribers, subscribersLock, messages, messagesMutex, closed,
                   closing, queue, qclosed, held, acked, nacked, pub, clo, panicked,
                   pushed, calls>>

\* the goroutine: g.messagesMutex.RLock(); the retained messages of the topic are
\* read if g.persistent
ReplayStart(s) ==
    LET log == IF Retains THEN messages[gor[s].topic] ELSE <<>> IN
    /\ Alive
    /\ gor[s].pc = "start"
    /\ CanRLock(messagesMutex)
    /\ IF log = <<>>
       THEN /\ gor' = [gor EXCEPT ![s].pc = "sublock"]
            /\ messagesMutex' = [messagesMutex EXCEPT !.r = ReadersAfterReplay(s)]
       ELSE /\ gor' = [gor EXCEPT ![s].snap = log, ![s].ri = 1, ![s].att = 1,
                                  ![s].pc = "send"]
            /\ messagesMutex' = [messagesMutex EXCEPT !.r = @ \cup {s}]
    /\ UNCHANGED <<config, exited, subscribers, subscribersLock, messages, closed, closing, queue,
                   qclosed, held, acked, nacked, pub, clo, panicked, pushed, calls>>

\* g.subscribersLock.Lock(): the writer mutex is taken, the readers are told
RegisterLock(s) ==
    /\ Alive
    /\ gor[s].pc = "sublock"
    /\ CanLock(subscribersLock)
    /\ subscribersLock' = [subscribersLock EXCEPT !.w = s]
    /\ gor' = [gor EXCEPT ![s].pc = "register"]
    /\ UNCHANGED <<config, exited, subscribers, messages, messagesMutex, closed, closing, queue,
                   qclosed, held, acked, nacked, pub, clo, panicked, pushed, calls>>

\* Lock returns; g.messagesMutex.RUnlock(): the goroutine holds subscribersLock and
\* has left messagesMutex, the subscriber is not appended yet
RegisterRUnlock(s) ==
    /\ Alive
    /\ gor[s].pc = "register"
    /\ Drained(subscribersLock)
    /\ messagesMutex' = [messagesMutex EXCEPT !.r = @ \ {s}]
    /\ gor' = [gor EXCEPT ![s].pc = "append"]
    /\ UNCHANGED <<config, exited, subscribers, subscribersLock, messages, closed, closing, queue,
                   qclosed, held, acked, nacked, pub, clo, panicked, pushed, calls>>

\* the subscriber is appended to g.subscribers[topic]; the deferred Unlock runs
Register(s) ==
    /\ Alive
    /\ gor[s].pc = "append"
    /\ subscribers' = [subscribers EXCEPT ![gor[s].topic] = Append(@, s)]
    /\ subscribersLock' = [subscribersLock EXCEPT !.w = ""]
    /\ gor' = [gor EXCEPT ![s].pc = "registered"]
    /\ UNCHANGED <<config, exited, messages, messagesMutex, closed, closing, queue, qclosed, held,
                   acked, nacked, pub, clo, panicked, pushed, calls>>

\* ---------------------------------------------------------------- consumer
\* the consumer reads a copy from its channel
Receive(s) ==
    /\ Alive
    /\ held[s] = <<>>
    /\ queue[s] # <<>>
    /\ held' = [held EXCEPT ![s] = <<Head(queue[s])>>]
    /\ queue' = [queue EXCEPT ![s] = Tail(@)]
    /\ UNCHANGED <<config, exited, subscribers, subscribersLock, messages, messagesMutex, closed,
                   closing, qclosed, acked, nacked, pub, gor, clo, panicked, pushed, calls>>

\* msg.Ack()
Ack(s) ==
    /\ Alive
    /\ held[s] # <<>>
    /\ acked' = acked \cup {held[s][1]}
    /\ held' = [held EXCEPT ![s] = <<>>]
    /\ UNCHANGED <<config, exited, subscribers, subscribersLock, messages, messagesMutex, closed,
                   closing, queue, qclosed, nacked, pub, gor, clo, panicked, pushed, calls>>

\* msg.Nack()
Nack(s) ==
    /\ Alive
    /\ held[s] # <<>>
    /\ Cardinality(nacked) < MaxNacks
    /\ nacked' = nacked \cup {held[s][1]}
    /\ held' = [held EXCEPT ![s] = <<>>]
    /\ UNCHANGED <<config, exited, subscribers, subscribersLock, messages, messagesMutex, closed,
                   closing, queue, qclosed, acked, pub, gor, clo, panicked, pushed, calls>>

\* ------------------------------------------------------------------- Close
\* mutant: Close does not test g.closed
MutAlreadyClosed == FALSE

\* if g.closed
AlreadyClosed == closed

\* Close is called: if g.closed { return nil }
CloseCall(c) ==
    /\ Alive
    /\ clo[c] = "idle"
    /\ \A q \in Prev[c] : clo[q] # "idle"
    /\ clo' = [clo EXCEPT ![c] = IF AlreadyClosed THEN "noop" ELSE "signal"]
    /\ UNCHANGED <<config, exited, subscribers, subscribersLock, messages, messagesMutex, closed,
                   closing, queue, qclosed, held, acked, nacked, pub, gor, panicked,
                   pushed, calls>>

\* g.closed = true; close(g.closing): closing a closed channel panics
CloseSignal(c) ==
    /\ Alive
    /\ clo[c] = "signal"
    /\ closed' = TRUE
    /\ IF closing
       THEN /\ Panics("close of closed channel")
            /\ clo' = [clo EXCEPT ![c] = "panic"]
            /\ UNCHANGED closing
       ELSE closing' = TRUE /\ clo' = [clo EXCEPT ![c] = "lock"] /\ UNCHANGED panicked
    /\ UNCHANGED <<config, exited, subscribers, subscribersLock, messages, messagesMutex, queue,
                   qclosed, held, acked, nacked, pub, gor, pushed, calls>>

\* g.subscribersLock.Lock(): the writer mutex is taken, the readers are told
CloseLock(c) ==
    /\ Alive
    /\ clo[c] = "lock"
    /\ CanLock(subscribersLock)
    /\ subscribersLock' = [subscribersLock EXCEPT !.w = c]
    /\ clo' = [clo EXCEPT ![c] = "closeall"]
    /\ UNCHANGED <<config, exited, subscribers, messages, messagesMutex, closed, closing, queue,
                   qclosed, held, acked, nacked, pub, gor, panicked, pushed, calls>>

\* every subscriber in g.subscribers
AllRegistered == UNION {Registered(t) : t \in Topics}

\* Lock returns; close(subscriber.outputChannel) for every registered subscriber
\* (closing a closed channel panics); the deferred Unlock runs
CloseAll(c) ==
    /\ Alive
    /\ clo[c] = "closeall"
    /\ Drained(subscribersLock)
    /\ IF \E s \in AllRegistered : qclosed[s]
       THEN /\ Panics("close of closed channel")
            /\ \E Q \in SUBSET {s \in AllRegistered : ~qclosed[s]} :
                  qclosed' = [s \in Subs |-> qclosed[s] \/ s \in Q]
            /\ subscribersLock' = [subscribersLock EXCEPT !.w = ""]
            /\ clo' = [clo EXCEPT ![c] = "panic"]
       ELSE /\ qclosed' = [s \in Subs |-> s \in AllRegistered]
            /\ subscribersLock' = [subscribersLock EXCEPT !.w = ""]
            /\ clo' = [clo EXCEPT ![c] = "done"]
            /\ UNCHANGED panicked
    /\ UNCHANGED <<config, exited, subscribers, messages, messagesMutex, closed, closing, queue,
                   held, acked, nacked, pub, gor, pushed, calls>>

\* ------------------------------------------------------------------- specs
\* Publish, Subscribe and the consumers, every copy being acked
Core(P, S, T) ==
    \/ \E p \in P, t \in T, n \in 1..MaxMsgs : PublishCall(p, t, n)
    \/ \E p \in P : PublishLock(p)
    \/ \E p \in P : PublishAppend(p)
    \/ \E p \in P : SendMessage(p)
    \/ \E s \in S, t \in T : Subscribe(s, t)
    \/ \E s \in S : ReplayStart(s)
    \/ \E s \in S : RegisterLock(s)
    \/ \E s \in S : RegisterRUnlock(s)
    \/ \E s \in S : Register(s)
    \/ \E x \in P \cup S : Send(x)
    \/ \E x \in P \cup S : AwaitAcked(x)
    \/ \E s \in S : Receive(s)
    \/ \E s \in S : Ack(s)

\* the consumers nack
Nacking(P, S) ==
    \/ \E s \in S : Nack(s)
    \/ \E x \in P \cup S : AwaitNacked(x)

\* the send timeout fires
Timing(P, S) == \E x \in P \cup S : SendTimeout(x)

\* Close is called
Closing(P, S, C) ==
    \/ \E c \in C : CloseCall(c)
    \/ \E c \in C : CloseSignal(c)
    \/ \E c \in C : CloseLock(c)
    \/ \E c \in C : CloseAll(c)
    \/ \E x \in P \cup S : SendClosing(x)
    \/ \E x \in P \cup S : AwaitClosing(x)
    \/ \E x \in P \cup S : SendOnClosed(x)
    \/ Exit

\* a new subscriber against one Publish call: no Close, no timeout, every copy acked
InitAck == Construct(0..MaxBuffer, {noTimeout}, BOOLEAN)

NextSub == Core({"p1"}, {"s1", "s2"}, {"A"})

SpecSub == InitAck /\ [][NextSub]_vars

\* two Publish calls against one subscriber: no Close, no timeout, every copy acked
NextPub == Core({"p1", "p2"}, {"s1"}, {"A"})

SpecPub == InitAck /\ [][NextPub]_vars

\* the consumers nack: no Close, no timeout; the queues are buffered, so that a
\* push and the consumer's receive of it are separate steps
InitNack == Construct({MaxBuffer}, {noTimeout}, BOOLEAN)

NextNack == Core({"p1"}, {"s1", "s2"}, {"A"}) \/ Nacking({"p1"}, {"s1", "s2"})

SpecNack == InitNack /\ [][NextNack]_vars

\* the consumers nack: no Close, no timeout; the queues are unbuffered, so that a push
\* is the consumer's receive (there is no separate Receive step)
InitUnbuffered == Construct({0}, {noTimeout}, BOOLEAN)

NextUnbuffered ==
    \/ \E p \in {"p1"}, t \in {"A"}, n \in 1..MaxMsgs : PublishCall(p, t, n)
    \/ \E p \in {"p1"} : PublishLock(p)
    \/ \E p \in {"p1"} : PublishAppend(p)
    \/ \E p \in {"p1"} : SendMessage(p)
    \/ \E s \in {"s1", "s2"}, t \in {"A"} : Subscribe(s, t)
    \/ \E s \in {"s1", "s2"} : ReplayStart(s)
    \/ \E s \in {"s1", "s2"} : RegisterLock(s)
    \/ \E s \in {"s1", "s2"} : RegisterRUnlock(s)
    \/ \E s \in {"s1", "s2"} : Register(s)
    \/ \E x \in {"p1", "s1", "s2"} : Send(x)
    \/ \E x \in {"p1", "s1", "s2"} : AwaitAcked(x)
    \/ \E s \in {"s1", "s2"} : Ack(s)
    \/ Nacking({"p1"}, {"s1", "s2"})

SpecUnbuffered == InitUnbuffered /\ [][NextUnbuffered]_vars

\* a send timeout is configured and fires: no Close, every copy acked
InitTimeout == Construct(0..MaxBuffer, SendTimeouts \ {noTimeout}, BOOLEAN)

NextTimeout == Core({"p1"}, {"s1", "s2"}, {"A"}) \/ Timing({"p1"}, {"s1", "s2"})

SpecTimeout == InitTimeout /\ [][NextTimeout]_vars

\* a replay in an engine with a send timeout, which fires, and Close
InitReplay == Construct(0..MaxBuffer, SendTimeouts \ {noTimeout}, {TRUE})

NextReplay ==
    \/ Core({"p1"}, {"s1"}, {"A"})
    \/ Timing({"p1"}, {"s1"})
    \/ Closing({"p1"}, {"s1"}, {"c1"})

SpecReplay == InitReplay /\ [][NextReplay]_vars

\* Publish calls of one message, Subscribe and Close, all concurrent, every copy
\* acked, the queues unbuffered: the calls take each lock as often as in the code,
\* once per call (and once per message in sendMessage)
NextLocks ==
    \/ \E p \in {"p1"}, t \in {"A"} : PublishCall(p, t, 1)
    \/ \E p \in {"p1"} : PublishLock(p)
    \/ \E p \in {"p1"} : PublishAppend(p)
    \/ \E p \in {"p1"} : SendMessage(p)
    \/ \E s \in {"s1", "s2"}, t \in {"A"} : Subscribe(s, t)
    \/ \E s \in {"s1", "s2"} : ReplayStart(s)
    \/ \E s \in {"s1", "s2"} : RegisterLock(s)
    \/ \E s \in {"s1", "s2"} : RegisterRUnlock(s)
    \/ \E s \in {"s1", "s2"} : Register(s)
    \/ \E x \in {"p1", "s1", "s2"} : Send(x)
    \/ \E x \in {"p1", "s1", "s2"} : AwaitAcked(x)
    \/ \E s \in {"s1", "s2"} : Ack(s)
    \/ Closing({"p1"}, {"s1", "s2"}, {"c1"})

SpecLocks == InitUnbuffered /\ [][NextLocks]_vars

\* everything, Close included
Next ==
    \/ Core({"p1"}, {"s1"}, {"A"})
    \/ Nacking({"p1"}, {"s1"})
    \/ Timing({"p1"}, {"s1"})
    \/ Closing({"p1"}, {"s1"}, {"c1"})

Spec == Init /\ [][Next]_vars

\* two Close calls, one after the other or concurrent, against one Publish call and
\* one subscriber
NextClose == Core({"p1"}, {"s1"}, {"A"}) \/ Closing({"p1"}, {"s1"}, {"c1", "c2"})

SpecClose == InitAck /\ [][NextClose]_vars

\* two Publish calls and one subscriber on two topics: no Close, no timeout
NextTopics == Core({"p1", "p2"}, {"s1"}, {"A", "B"})

SpecTopics == InitAck /\ [][NextTopics]_vars

\* ---------------------------------------------------------------- fairness
\* a send the sender completes by itself: the channel is buffered and has a free slot
BufferedSend(x) == outputChannelBuffer > 0 /\ Send(x)

\* the steps of one Publish call once it is made; a send on an unbuffered channel
\* is not among them: it waits in the first select for the consumer's receive
PubStep(p) ==
    \/ PublishLock(p) \/ PublishAppend(p) \/ SendMessage(p)
    \/ BufferedSend(p) \/ AwaitAcked(p) \/ AwaitNacked(p)
    \/ SendTimeout(p) \/ SendClosing(p) \/ AwaitClosing(p) \/ SendOnClosed(p)

\* the steps of the goroutine of one Subscribe call
GorStep(s) ==
    \/ ReplayStart(s) \/ RegisterLock(s) \/ RegisterRUnlock(s) \/ Register(s)
    \/ BufferedSend(s) \/ AwaitAcked(s) \/ AwaitNacked(s)
    \/ SendClosing(s) \/ AwaitClosing(s)

\* the steps of one Close call once it is made
CloseStep(c) == CloseSignal(c) \/ CloseLock(c) \/ CloseAll(c)

\* the consumer of s receives from its unbuffered channel: the send of a call that
\* waits in the first select for s completes
UnbufferedReceive(s) ==
    /\ outputChannelBuffer = 0
    /\ \E x \in Senders : PC(x) = "send" /\ CurSub(x) = s /\ Send(x)

\* a consumer that reads its channel and acks every copy it reads
AckingConsumer(s) == Receive(s) \/ UnbufferedReceive(s) \/ Ack(s)

\* the Go scheduler runs every goroutine that can take a step
Scheduled(P, S, C) ==
    /\ \A p \in P : WF_vars(PubStep(p))
    /\ \A s \in S : WF_vars(GorStep(s))
    /\ \A c \in C : WF_vars(CloseStep(c))
    /\ WF_vars(Exit)

\* SpecPub with every goroutine scheduled and consumers that read and ack
FairPub ==
    /\ SpecPub
    /\ Scheduled({"p1", "p2"}, {"s1"}, {})
    /\ \A s \in {"s1"} : WF_vars(AckingConsumer(s))

\* SpecTopics with every goroutine scheduled; the consumers of topic B read and ack,
\* the consumers of topic A may never do
FairTopics ==
    /\ SpecTopics
    /\ Scheduled({"p1", "p2"}, {"s1"}, {})
    /\ \A s \in {"s1"} : WF_vars(gor[s].topic = "B" /\ AckingConsumer(s))

\* SpecPub with every goroutine scheduled; the consumers may never read or ack
FairSched == SpecPub /\ Scheduled({"p1", "p2"}, {"s1"}, {})

\* SpecLocks with every goroutine scheduled and consumers that read and ack
FairLocks ==
    /\ SpecLocks
    /\ Scheduled({"p1"}, {"s1", "s2"}, {"c1"})
    /\ \A s \in {"s1", "s2"} : WF_vars(AckingConsumer(s))

\* Spec with every goroutine scheduled; the consumers may never read or ack
FairSpec == Spec /\ Scheduled({"p1"}, {"s1"}, {"c1"})

\* ------------------------------------------------------------------ claims
\* positions of pushed[s] holding a copy of message m
Copies(s, m) == {k \in 1..Len(pushed[s]) : pushed[s][k].copy.msg = m}

\* m reached the queue of s through the replay of the retention log
Replayed(s, m) == \E k \in Copies(s, m) : ~pushed[s][k].live

\* m reached the queue of s through the live delivery of sendMessage
Live(s, m) == \E k \in Copies(s, m) : pushed[s][k].live

\* the messages of the Publish call of p
Published(p) == {Msg(p, i) : i \in 1..pub[p].n}

\* the goroutine of s has read the retention log (its replay snapshot is taken)
HasReadLog(s) == gor[s].pc \notin {"idle", "start"}

\* C1: in persistent mode a message of a Publish call racing with Subscribe never
\* reaches the new subscriber's queue both through the replay and through live
\* delivery (checked under SpecSub: no Close, no timeout, every copy acked).
C1_NeverBoth ==
    \A s \in Subs, p \in Pubs :
        persistent => \A m \in Published(p) : ~(Replayed(s, m) /\ Live(s, m))

\* C2: in persistent mode a message of a Publish call racing with Subscribe reaches
\* the new subscriber at least once: once Publish has returned, every subscriber of
\* the topic that has read the retention log either has the message in its replay
\* snapshot (and gets it when the replay reaches it) or got it live.
C2_AtLeastOnce ==
    \A s \in Subs, p \in Pubs :
        (persistent /\ pub[p].pc = "done" /\ HasReadLog(s) /\ gor[s].topic = pub[p].topic)
            => \A m \in Published(p) :
                  \/ Live(s, m)
                  \/ /\ m \in SeqToSet(gor[s].snap)
                     /\ gor[s].pc = "registered" => Replayed(s, m)

\* C2's case: a subscriber that read the log before the message was appended got the
\* message live only, after its registration.
C2_Witness ==
    \E s \in Subs, p \in Pubs :
        /\ persistent /\ pub[p].pc = "done" /\ gor[s].pc = "registered"
        /\ pub[p].n = 2 /\ hist[p].ret = {s} /\ hist[p].reg = {}
        /\ \A m \in Published(p) : Live(s, m) /\ ~Replayed(s, m)

\* C3: in non-persistent mode every message of a Publish call made after
\* Subscribe(topic) has returned is delivered to that subscriber, and Publish returns
\* nil only once the consumer has acked it.
C3_DeliveredAfterSubscribe ==
    \A p \in Pubs :
        (~persistent /\ pub[p].pc = "done" /\ pub[p].err = "nil")
            => \A s \in hist[p].ret : \A m \in Published(p) :
                  \E k \in Copies(s, m) : pushed[s][k].copy \in acked

\* C4: a subscriber registered on the topic when Publish is called gets at most one
\* copy of each message of the call, and gets it before any copy of a message of a
\* Publish call that started after this one had returned.
C4_Safety ==
    \A p \in Pubs : \A s \in hist[p].reg : \A m \in Published(p) :
        /\ Cardinality(Copies(s, m)) <= 1
        /\ \A q \in Pubs : p \in hist[q].done =>
              \A mq \in Published(q) : \A kq \in Copies(s, mq) :
                  \E k \in Copies(s, m) : k < kq

\* the subscriber has read and acked exactly one copy of every message of the call
ReceivedOnce(p, s) ==
    \A m \in Published(p) :
        /\ Cardinality(Copies(s, m)) = 1
        /\ \A k \in Copies(s, m) : pushed[s][k].copy \in acked

\* C4: (no Close, no timeout, the consumer acks every copy it reads) every subscriber
\* already registered on the topic when Publish is called eventually receives exactly
\* one copy of each message of the call, before any message published after the
\* call has returned: from some point on every call that was made has been received
\* so by every such subscriber.
C4_ExactlyOnceInOrder ==
    /\ []C4_Safety
    /\ <>[](\A p \in Pubs : \A s \in Subs :
              (pub[p].pc # "idle" /\ s \in hist[p].reg) => ReceivedOnce(p, s))

\* C4's case: two Publish calls one after the other, the subscriber registered before
\* both and having received the messages of both.
C4_Witness ==
    \E p \in Pubs, q \in Pubs, s \in Subs :
        /\ p \in hist[q].done /\ s \in hist[p].reg
        /\ pub[p].n = 2 /\ pub[q].pc = "done"
        /\ ReceivedOnce(p, s) /\ ReceivedOnce(q, s)

\* the copies of message m that call x sent to subscriber s
Attempts(x, s, m) ==
    {pushed[s][k].copy : k \in {j \in Copies(s, m) : pushed[s][j].copy.from = x}}

\* every message a Publish call can carry
AllMsgs == {Msg(p, i) : p \in Pubs, i \in 1..MaxMsgs}

\* the call has left its last sendMessageToSubscriber
Finished(x) ==
    IF x \in Pubs THEN pub[x].pc = "done"
    ELSE gor[x].pc \in {"sublock", "register", "append", "registered"}

\* C5: (no Close, no timeout) Publish returns nil only after every subscriber that was
\* registered on the topic when the call started has acked a copy of every message
\* of the call.
C5_BlockingUntilConsumed ==
    \A p \in Pubs :
        (pub[p].pc = "done" /\ pub[p].err = "nil")
            => \A s \in hist[p].reg : \A m \in Published(p) :
                  \E c \in Attempts(p, s, m) : c \in acked

\* C5's case: a Publish of two messages has returned, two subscribers being registered
\* when it was called, one of which nacked a copy.
C5_Witness ==
    \E p \in Pubs :
        /\ pub[p].pc = "done" /\ pub[p].err = "nil" /\ pub[p].n = 2
        /\ hist[p].reg = {"s1", "s2"}
        /\ nacked # {}

\* C6: a nack makes the sender send a fresh copy to that subscriber until one is
\* acked: the n-th copy of a message from a call on a queue follows n-1 copies, a
\* copy is followed by another one only if it was nacked (and not acked), the last
\* copy of a finished delivery is acked, so that N nacks make N+1 copies, and the
\* Publish call ends with nil, never with an error.
C6_NackRedelivers ==
    /\ \A s \in Subs : \A k \in 1..Len(pushed[s]) :
          LET c == pushed[s][k].copy
              same(j) == pushed[s][j].copy.from = c.from /\ pushed[s][j].copy.msg = c.msg
              resent == \E j \in (k + 1)..Len(pushed[s]) : same(j)
          IN  /\ c.n = 1 + Cardinality({j \in 1..(k - 1) : same(j)})
              /\ resent => c \in nacked /\ c \notin acked
              /\ (~resent /\ Finished(c.from)) => c \in acked /\ c \notin nacked
    /\ \A p \in Pubs : pub[p].err \in {"none", "nil"} /\ (pub[p].pc = "done" => pub[p].err = "nil")

\* C6's case: a subscriber nacked the first two copies of a message and acked the
\* third, and Publish has returned nil.
C6_Witness ==
    \E p \in Pubs, s \in Subs :
        LET A == Attempts(p, s, Msg(p, 1)) IN
        /\ pub[p].pc = "done" /\ pub[p].err = "nil"
        /\ Cardinality(A) = 3 /\ Cardinality(A \cap nacked) = 2

\* C7: when the send of a copy of M times out, Publish returns a non-nil error, the
\* subscribers after this one in the list get no copy of M from the call, no message
\* after M in the call is delivered to anyone, and what was done stays: the
\* subscribers before this one have acked M and the retention log keeps the messages.
C7_TimeoutIsFatal ==
    \A c \in timedOut :
        LET p == c.from
            r == pub[p] IN
        /\ r.pc = "done" /\ r.err = "timeout"
        /\ c.msg = Msg(p, r.mi) /\ c.to = r.snap[r.sj]
        /\ \A j \in 1..Len(r.snap) :
              /\ j > r.sj => Attempts(p, r.snap[j], c.msg) = {}
              /\ j < r.sj => \E a \in Attempts(p, r.snap[j], c.msg) : a \in acked
        /\ \A i \in 1..r.n : i > r.mi => \A s \in Subs : Attempts(p, s, Msg(p, i)) = {}
        /\ persistent => Published(p) \subseteq SeqToSet(messages[r.topic])

\* C7's case: the send of the first of two messages timed out at the second of two
\* subscribers, the first subscriber having got its copy.
C7_Witness ==
    \E c \in timedOut :
        LET r == pub[c.from] IN
        /\ r.n = 2 /\ r.mi = 1 /\ Len(r.snap) = 2 /\ r.sj = 2
        /\ persistent

\* C8: once Close has broadcast the shutdown signal no Publish pushes a copy onto a
\* subscriber queue, and no Publish attempts a send on a queue that Close has closed.
C8_NoPushAfterClose ==
    /\ \A s \in Subs : \A k \in 1..Len(pushed[s]) :
          ~(pushed[s][k].late /\ pushed[s][k].live)
    /\ panicked # "send on closed channel"

\* C9: once Close has returned, the queue of every subscriber that was registered,
\* before or after it, is closed (no registration outlives Close with an open queue).
C9_EveryQueueClosed ==
    \A s \in Subs :
        (gor[s].pc = "registered" /\ \E c \in Closers : clo[c] = "done") => qclosed[s]

\* C10: once Close has broadcast the shutdown signal, every Publish that is in a
\* queue send or an ack wait eventually returns, every replay that is in one
\* eventually leaves it, and Close itself eventually returns, even when no consumer
\* ever reads or acks.
C10_CloseUnblocks ==
    /\ \A p \in Pubs : (closing /\ pub[p].pc \in {"send", "ack"}) ~> (pub[p].pc = "done")
    /\ \A s \in Subs : (closing /\ gor[s].pc \in {"send", "ack"}) ~> Finished(s)
    /\ \A c \in Closers : (clo[c] \in {"lock", "closeall"}) ~> (clo[c] = "done")

\* what Close can change: the engine, the queues and the runtime
engine == <<subscribers, subscribersLock, messages, messagesMutex, closed, closing,
            queue, qclosed, panicked>>

\* a Close call has returned
CloseReturned == \E d \in Closers : clo[d] \in {"done", "noop"}

\* C11: a Close call made after a Close call has returned returns nil at once (its
\* only step is the test of g.closed), changes no state of the engine, and closes
\* neither g.closing nor any subscriber queue a second time.
C11_CloseIdempotent ==
    [][\A c \in Closers :
          (clo[c] = "idle" /\ clo'[c] # "idle" /\ CloseReturned)
              => (clo'[c] = "noop" /\ UNCHANGED engine)]_vars

\* C11's case: the first Close has closed a subscriber queue and returned, the
\* second Close has returned too.
C11_Witness ==
    /\ clo["c1"] = "done" /\ clo["c2"] = "noop"
    /\ \E s \in Subs : qclosed[s]

\* C20: whatever the interleaving of the Close calls, g.closing and every subscriber
\* queue are closed at most once (no close of a closed channel), at most one call
\* closes g.closing and goes on to close the queues, and when all have returned one
\* of them has performed the shutdown.
C20_ClosedAtMostOnce ==
    /\ panicked # "close of closed channel"
    /\ Cardinality({c \in Closers : clo[c] \in {"lock", "closeall", "done"}}) <= 1
    /\ (\A c \in Closers : clo[c] \in {"done", "noop"})
           => \E c \in Closers : clo[c] = "done"

\* C12: a Publish on topic B always runs to completion, whatever delivery on topic A
\* (a live Publish waiting for an ack, a replay waiting for its consumer) is still
\* waiting, provided the subscribers of topic B read and ack.
C12_TopicsIndependent ==
    \A p \in Pubs : (pub[p].pc # "idle" /\ pub[p].topic = "B") ~> (pub[p].pc = "done")

\* the messages retained for topic t
Retained(t) == SeqToSet(messages[t])

\* the place of m in the retention log of topic t
LogPos(t, m) == CHOOSE i \in 1..Len(messages[t]) : messages[t][i] = m

\* m1 was published before m2 on one topic: it was appended to the retention log
\* first or (non-persistent) its Publish call started first; within one call the
\* messages are in the order of the arguments
PublishedBefore(m1, m2) ==
    LET p1 == m1[1]
        p2 == m2[1] IN
    /\ pub[p1].pc # "idle" /\ pub[p2].pc # "idle"
    /\ pub[p1].topic = pub[p2].topic
    /\ m1[2] <= pub[p1].n /\ m2[2] <= pub[p2].n
    /\ IF persistent
       THEN /\ {m1, m2} \subseteq Retained(pub[p1].topic)
            /\ LogPos(pub[p1].topic, m1) < LogPos(pub[p1].topic, m2)
       ELSE \/ p1 = p2 /\ m1[2] < m2[2]
            \/ p1 \in Prev[p2]

\* the place on its queue of the first copy s was sent of m
First(s, m) == CHOOSE k \in Copies(s, m) : \A j \in Copies(s, m) : k <= j

\* C13: a subscriber that is sent M1 and M2 of one topic, M1 published before M2, is
\* sent its first copy of M1 before its first copy of M2, by replay or live, the two
\* messages being of one Publish call or of two concurrent ones.
C13_PublishOrder ==
    \A s \in Subs : \A m1 \in AllMsgs, m2 \in AllMsgs :
        (PublishedBefore(m1, m2) /\ Copies(s, m1) # {} /\ Copies(s, m2) # {})
            => First(s, m1) < First(s, m2)

\* the message instances placed on the queue of s
Placed(s) == {pushed[s][k].copy : k \in 1..Len(pushed[s])}

\* the instances the consumer of s has not answered yet: those still on its queue and
\* the one it has read and neither acked nor nacked
Unanswered(s) == SeqToSet(queue[s]) \cup SeqToSet(held[s])

\* C14: every subscriber gets its own copies, with their own ack state: no message
\* instance is placed on two queues or twice on one queue; an instance is acked or
\* nacked only by the consumer of the one queue it was placed on, so that the ack wait
\* for it ends on that consumer's answer only; the copies of a message a call sends
\* to a subscriber beyond the first are as many as that subscriber's own nacks; and
\* a Publish that returned gave a copy of every message to every subscriber
\* registered when it was called.
C14_IndependentCopies ==
    LET P == [s \in Subs |-> Placed(s)] IN
    /\ \A s \in Subs : Cardinality(P[s]) = Len(pushed[s])
    /\ \A s \in Subs, t \in Subs : s # t => P[s] \cap P[t] = {}
    /\ (acked \cup nacked) \subseteq UNION {P[s] \ Unanswered(s) : s \in Subs}
    /\ \A s \in Subs : \A d \in {<<c.from, c.msg>> : c \in P[s]} :
          LET A == {c \in P[s] : c.from = d[1] /\ c.msg = d[2]} IN
          Cardinality(A) <= 1 + Cardinality(A \cap nacked)
    /\ \A p \in Pubs : pub[p].pc = "done" =>
          \A s \in hist[p].reg, m \in Published(p) : \E c \in P[s] : c.from = p /\ c.msg = m

\* C14's case: of two subscribers registered when Publish was called, one nacked its
\* first copy of the message and got a second one, the other got one copy only.
C14_Witness ==
    \E p \in Pubs :
        LET m == Msg(p, 1) IN
        /\ pub[p].pc = "done" /\ hist[p].reg = {"s1", "s2"}
        /\ Cardinality(Attempts(p, "s1", m)) = 2
        /\ Cardinality(Attempts(p, "s1", m) \cap nacked) = 1
        /\ Cardinality(Attempts(p, "s2", m)) = 1
        /\ Attempts(p, "s2", m) \subseteq acked

\* C17: within one Publish call the subscribers are served in registration order, one
\* at a time: a subscriber has a copy of M from the call only if every subscriber
\* registered before it has acked a copy of M from the call (no Close here), and the
\* call has at most one copy unanswered; so a subscriber that nacks or does not
\* answer keeps M from every later one.
C17_RegistrationOrder ==
    \A p \in Pubs :
        LET L == subscribers[pub[p].topic]
            from(s, m) == {c \in Placed(s) : c.from = p /\ c.msg = m} IN
        pub[p].pc # "idle" =>
            /\ \A m \in Published(p) : \A j \in 1..Len(L) :
                  from(L[j], m) # {} => \A i \in 1..(j - 1) : from(L[i], m) \cap acked # {}
            /\ Cardinality({c \in UNION {Unanswered(s) : s \in Subs} : c.from = p}) <= 1

\* C17's case: the call waits for the second subscriber's answer to the second
\* message, the first subscriber having nacked a copy of it before acking one.
C17_Witness ==
    \E p \in Pubs :
        LET L == subscribers[pub[p].topic] IN
        /\ pub[p].pc = "ack" /\ pub[p].mi = 2 /\ Len(L) = 2 /\ pub[p].sj = 2
        /\ \E c \in Placed(L[1]) \cap nacked : c.from = p /\ c.msg = Msg(p, 2)

\* what the replay has placed on the queue of s
ReplayedTo(s) == SelectSeq(pushed[s], LAMBDA e : ~e.live)

\* the subscriber gets the log of its topic as it was when the goroutine read it, in
\* append order and before any live message
ReplayInOrder(s) ==
    LET R == ReplayedTo(s)
        snap == gor[s].snap
        log == messages[gor[s].topic] IN
    /\ Len(snap) <= Len(log) /\ SubSeq(log, 1, Len(snap)) = snap
    /\ Len(R) <= Len(snap) /\ \A k \in 1..Len(R) : R[k].copy.msg = snap[k]
    /\ Finished(s) => Len(R) = Len(snap)
    /\ \A k \in 1..Len(pushed[s]) : pushed[s][k].live =>
          (Finished(s) /\ \A j \in (k + 1)..Len(pushed[s]) : pushed[s][j].live)

\* C15: in persistent mode a Publish on a topic with no registered subscriber returns
\* nil without waiting for anyone (it returns, or the topic gets a registered
\* subscriber, whatever the consumers do), and a later subscriber is sent every
\* message retained for the topic, in append order and before any live message.
C15_PublishThenReplay ==
    /\ [](persistent => \A s \in Subs : HasReadLog(s) => ReplayInOrder(s))
    /\ [](persistent => \A p \in Pubs : pub[p].pc = "done" => pub[p].err = "nil")
    /\ \A p \in Pubs :
          (persistent /\ pub[p].pc \notin {"idle", "done"})
              ~> (pub[p].pc = "done" \/ (pub[p].pc # "idle" /\ Registered(pub[p].topic) # {}))

\* C16: in non-persistent mode a message for which Publish found no registered
\* subscriber on its topic is gone: Publish goes on at once (it returns nil when the
\* message is its last), nothing is retained and no copy of the message is ever
\* placed on any queue, also not on the queue of a later subscriber.
C16_Gone ==
    ~persistent =>
        /\ \A t \in Topics : messages[t] = <<>>
        /\ \A p \in Pubs : \A m \in hist[p].lost :
              /\ \A s \in Subs : Copies(s, m) = {}
              /\ m[2] < pub[p].mi \/ (pub[p].pc = "done" /\ pub[p].err = "nil")

\* C16's case: the first message of a Publish call found no subscriber, a subscriber
\* registered afterwards and got the second message only.
C16_Witness ==
    \E p \in Pubs, s \in Subs :
        /\ ~persistent /\ pub[p].pc = "done"
        /\ hist[p].lost = {Msg(p, 1)}
        /\ gor[s].pc = "registered" /\ gor[s].topic = pub[p].topic
        /\ Copies(s, Msg(p, 2)) # {} /\ Copies(s, Msg(p, 1)) = {}

\* the consumer of s has answered the copy the replay waits for, or Close was called
ReplayMayGoOn(s) ==
    \/ closing
    \/ gor[s].pc = "send" /\ pushed'[s] # pushed[s]
    \/ gor[s].pc = "ack" /\ MsgToSend(s) \in acked \cup nacked

\* C18: whatever send timeout the engine has, the send of a replay never times out, so
\* that the replay never fails and the panic of the Subscribe goroutine is never
\* reached; a replay that waits for its consumer holds the read lock of the retention
\* log and goes on only when the consumer has answered or Close was called.
C18_ReplayNeverFails ==
    /\ [](panicked # "replay failed")
    /\ [](\A c \in timedOut : c.from \in Pubs)
    /\ [](\A s \in Subs : gor[s].pc \in {"send", "ack"} => s \in messagesMutex.r)
    /\ [][\A s \in Subs : (gor[s].pc \in {"send", "ack"} /\ gor'[s] # gor[s])
                              => ReplayMayGoOn(s)]_vars

\* C18's case: in an engine with a send timeout the replay has sent the second
\* retained message and waits for its ack, no Close being called.
C18_Witness ==
    \E s \in Subs :
        /\ sendTimeout # noTimeout /\ ~closing
        /\ gor[s].pc = "ack" /\ gor[s].ri = 2 /\ s \in messagesMutex.r

\* the calls: Publish calls, Subscribe goroutines, Close calls
Procs == Pubs \cup Subs \cup Closers

\* the owner of the writer mutex of lock l, if any
Writer(l) == IF l.w = "" THEN {} ELSE {l.w}

\* the calls that hold, or are ahead in the queue for, the lock call x is asking for
WaitsFor(x) ==
    IF x \in Pubs THEN
        CASE pub[x].pc = "lock" -> Writer(messagesMutex)
          [] pub[x].pc = "append" -> messagesMutex.r
          [] pub[x].pc = "rlock" -> Writer(subscribersLock)
          [] OTHER -> {}
    ELSE IF x \in Subs THEN
        CASE gor[x].pc = "start" -> Writer(messagesMutex)
          [] gor[x].pc = "sublock" -> Writer(subscribersLock)
          [] gor[x].pc = "register" -> subscribersLock.r
          [] OTHER -> {}
    ELSE
        CASE clo[x] = "lock" -> Writer(subscribersLock)
          [] clo[x] = "closeall" -> subscribersLock.r
          [] OTHER -> {}

\* the calls x waits for, directly or through other waiting calls
RECURSIVE WaitsForUpTo(_, _)
WaitsForUpTo(x, k) ==
    IF k = 0 THEN WaitsFor(x)
    ELSE LET W == WaitsForUpTo(x, k - 1) IN W \cup UNION {WaitsFor(y) : y \in W}

\* no set of calls wait for one another's locks in a cycle
NoLockCycle == \A x \in Procs : x \notin WaitsForUpTo(x, Cardinality(Procs))

\* call x is asking for a lock it has not got yet
AsksLock(x) ==
    IF x \in Pubs THEN pub[x].pc \in {"lock", "append", "rlock"}
    ELSE IF x \in Subs THEN gor[x].pc \in {"start", "sublock", "register"}
    ELSE clo[x] \in {"lock", "closeall"}

\* C19: with concurrent Publish, Subscribe and Close calls and consumers that read and
\* ack every copy, no calls ever wait for the two locks in a cycle, Publish never
\* holds both locks, and every call that asks for a lock gets it.
C19_NoDeadlock ==
    /\ []NoLockCycle
    /\ [](\A p \in Pubs : ~(messagesMutex.w = p /\ p \in subscribersLock.r))
    /\ \A x \in Procs : AsksLock(x) ~> ~AsksLock(x)

====
